---------------------------- MODULE Spec2Model ----------------------------
(***************************************************************************)
(* Subtitle timing, lookup and SRT serialisation of the bilingual subtitle *)
(* app: src/services/gemini.ts (ingestion), src/utils/srt.ts (SRT codec),  *)
(* src/unnamed/part_000 (types, SubtitleOverlay) and src/unnamed/part_001  *)
(* (the App component with the burn-in frame loop).                        *)
(*                                                                         *)
(* A JavaScript string is a sequence of one-character strings.  A          *)
(* JavaScript number is an IEEE-754 double, kept exactly: a record         *)
(* [nan, i, f] with i the integer part and f the binary fraction           *)
(* (f[k] is the bit of weight 2^-k), rounded to 53 significant bits,       *)
(* ties to even, after every arithmetic operation.  Only non-negative      *)
(* finite values and NaN occur: the input alphabet has no sign, no         *)
(* exponent and no letters of "Infinity".                                  *)
(***************************************************************************)
EXTENDS Integers, Sequences, FiniteSets, TLC

VARIABLES
    timeStr,       \* the timestamp text handed to the two parsers
    utilSeconds,   \* <<x>> once parseTimeToSeconds(timeStr) returned x
    aiSeconds,     \* <<x>> once parseSRTTime(timeStr) returned x
    pc,            \* where a run of the timeline functions stands
    rawSubs,       \* processVideoWithAI: the parsed response of the service
    subtitles,     \* App: the subtitle list held in state
    currentTime,   \* App: the playback time handed to the lookup
    activeSub,     \* SubtitleOverlay: <<>> (undefined) or <<the entry found>>
    frameSub,      \* renderFrame: <<>> (undefined) or <<the entry found>>
    srtMode,       \* generateSRT: the mode asked for
    srtOut,        \* generateSRT: the text returned
    video,         \* App: <<>> (null) or <<name of the uploaded file>>
    processing,    \* App: [status, progress, message]
    isSynthesizing,\* App: the burn-in flag
    runs,          \* the calls of startAnalysis made so far, in flight or ended
    videoTime,     \* videoRef.current.currentTime
    burn,          \* the burn-in pass: where synthesizeVideo stands, and the
                   \* isSynthesizing, subtitles and video its closure captured
    fileName       \* downloadFile: <<>> or <<name of the last file offered>>

parseVars == <<timeStr, utilSeconds, aiSeconds>>

timelineVars ==
    <<pc, rawSubs, subtitles, currentTime, activeSub, frameSub, srtMode, srtOut>>

appVars == <<video, processing, isSynthesizing, runs, videoTime, burn, fileName>>

vars == <<parseVars, timelineVars, appVars>>

(***************************************************************************)
(* Bounds of the model.                                                    *)
(***************************************************************************)
\* Number of 15-bit limbs of the binary fraction that holds a double
\* exactly.  Every value below is 0 or at least 2^-20, so its 53rd
\* significant bit and the guard bit after it have weight 2^-73 or more.
Limbs == 5

Max(S) == CHOOSE x \in S : \A y \in S : y <= x
Min(S) == CHOOSE x \in S : \A y \in S : x <= y

(***************************************************************************)
(* IEEE-754 doubles.  The fraction f is a sequence of Limbs limbs of       *)
(* LimbBits bits, most significant first: bit k of the fraction (weight    *)
(* 2^-k) is bit LimbBits - 1 - ((k - 1) % LimbBits) of limb                *)
(* (k - 1) \div LimbBits + 1.                                              *)
(***************************************************************************)
LimbBits == 3 * 5

Base == 2 ^ LimbBits

FracBits == Limbs * LimbBits

ZeroFrac == [k \in 1..Limbs |-> 0]

NaN == [nan |-> TRUE, i |-> 0, f |-> ZeroFrac]

DInt(n) == [nan |-> FALSE, i |-> n, f |-> ZeroFrac]

RECURSIVE BitLen(_)
BitLen(n) == IF n = 0 THEN 0 ELSE 1 + BitLen(n \div 2)

LimbOf(k) == ((k - 1) \div LimbBits) + 1

\* The weight, within its limb, of bit k of the fraction
UnitOf(k) == 2 ^ (LimbOf(k) * LimbBits - k)

FracBit(f, k) == (f[LimbOf(k)] \div UnitOf(k)) % 2

\* Some bit of the fraction after bit k is 1
FracTail(f, k) ==
    \/ f[LimbOf(k)] % UnitOf(k) # 0
    \/ \E l \in (LimbOf(k) + 1)..Limbs : f[l] # 0

\* The double nearest to the exact value i + 0.f (+ something below the last
\* bit of f when sticky), ties to even.  q is the place in f of the 53rd
\* significant bit, the last one a double keeps.
RoundDouble(i, f, sticky) ==
    LET nz == {l \in 1..Limbs : f[l] # 0}
        q  == IF i > 0 THEN 53 - BitLen(i)
              ELSE IF nz = {} THEN FracBits
              ELSE (Min(nz) * LimbBits - BitLen(f[Min(nz)]) + 1) + 52
    IN  IF q >= FracBits
        THEN IF sticky /\ (i > 0 \/ nz # {})
             THEN CHOOSE x \in {} : TRUE    \* the fraction is too narrow
             ELSE [nan |-> FALSE, i |-> i, f |-> f]
        ELSE LET lq    == LimbOf(q)
                 unit  == UnitOf(q)
                 guard == FracBit(f, q + 1)
                 rest  == sticky \/ FracTail(f, q + 1)
                 up    == guard = 1 /\ (rest \/ FracBit(f, q) = 1)
                 kept  == f[lq] - (f[lq] % unit)
                 \* the increment carries out of limb l
                 Out(l) == /\ up
                           /\ kept + unit = Base
                           /\ \A m \in l..(lq - 1) : f[m] = Base - 1
             IN  [nan |-> FALSE,
                  i   |-> IF Out(1) THEN i + 1 ELSE i,
                  f   |-> [l \in 1..Limbs |->
                             IF l > lq THEN 0
                             ELSE IF l = lq
                             THEN IF up THEN (kept + unit) % Base ELSE kept
                             ELSE IF Out(l + 1) THEN (f[l] + 1) % Base
                             ELSE f[l]]]

RECURSIVE AddFrac(_, _, _, _, _)
AddFrac(f, g, l, carry, acc) ==
    IF l = 0 THEN <<carry, acc>>
    ELSE LET s == f[l] + g[l] + carry
         IN  AddFrac(f, g, l - 1, s \div Base, <<s % Base>> \o acc)

\* x + y
DAdd(x, y) ==
    IF x.nan \/ y.nan THEN NaN
    ELSE LET r == AddFrac(x.f, y.f, Limbs, 0, <<>>)
         IN  RoundDouble(x.i + y.i + r[1], r[2], FALSE)

RECURSIVE MulFrac(_, _, _, _, _)
MulFrac(f, n, l, carry, acc) ==
    IF l = 0 THEN <<carry, acc>>
    ELSE LET d == f[l] * n + carry
         IN  MulFrac(f, n, l - 1, d \div Base, <<d % Base>> \o acc)

\* x * n for an integer constant n below 2^15
DMulK(x, n) ==
    IF x.nan THEN NaN
    ELSE LET r == MulFrac(x.f, n, Limbs, 0, <<>>)
         IN  RoundDouble(x.i * n + r[1], r[2], FALSE)

RECURSIVE DivFrac(_, _, _, _, _)
DivFrac(f, n, l, rem, acc) ==
    IF l > Limbs THEN <<rem, acc>>
    ELSE LET t == rem * Base + f[l]
         IN  DivFrac(f, n, l + 1, t % n, Append(acc, t \div n))

\* x / n for an integer constant n below 2^15
DDivK(x, n) ==
    IF x.nan THEN NaN
    ELSE LET r == DivFrac(x.f, n, 1, x.i % n, <<>>)
         IN  RoundDouble(x.i \div n, r[2], r[1] # 0)

FracLess(f, g) ==
    \E l \in 1..Limbs : f[l] < g[l] /\ \A m \in 1..(l - 1) : f[m] = g[m]

\* x < y, x <= y, x >= y, x === y: each is false when an operand is NaN
DLt(x, y) ==
    /\ ~x.nan
    /\ ~y.nan
    /\ (x.i < y.i \/ (x.i = y.i /\ FracLess(x.f, y.f)))

DEq(x, y) == ~x.nan /\ ~y.nan /\ x.i = y.i /\ x.f = y.f

DLe(x, y) == DLt(x, y) \/ DEq(x, y)

DGe(x, y) == DLe(y, x)

(***************************************************************************)
(* JavaScript strings and the conversions of strings to numbers.  The     *)
(* alphabet of the model is the digits, ':', ',', '.', ' ', '-', '>', the  *)
(* line break and lower-case letters other than 'e' and 'x': no sign, no   *)
(* exponent, no radix prefix and no white space can start a numeral.       *)
(***************************************************************************)
DigitChars == <<"0", "1", "2", "3", "4", "5", "6", "7", "8", "9">>

IsDigit(c) == \E k \in 1..10 : DigitChars[k] = c

DigitVal(c) == (CHOOSE k \in 1..10 : DigitChars[k] = c) - 1

RECURSIVE DigitsValue(_)
DigitsValue(str) ==
    IF str = <<>> THEN 0
    ELSE 10 * DigitsValue(SubSeq(str, 1, Len(str) - 1)) + DigitVal(str[Len(str)])

RECURSIVE Pow10(_)
Pow10(n) == IF n = 0 THEN 1 ELSE 10 * Pow10(n - 1)

\* The longest prefix of str made of digits
DigitPrefix(str) ==
    LET stops == {k \in 1..Len(str) : ~IsDigit(str[k])}
    IN  IF stops = {} THEN str ELSE SubSeq(str, 1, Min(stops) - 1)

\* The value of the decimal numeral ip.fp: the double nearest to it
DecimalValue(ip, fp) == DDivK(DInt(DigitsValue(ip \o fp)), Pow10(Len(fp)))

\* String.prototype.split(sep) for a one-character separator
RECURSIVE Split(_, _)
Split(str, sep) ==
    LET hits == {k \in 1..Len(str) : str[k] = sep}
    IN  IF hits = {} THEN <<str>>
        ELSE <<SubSeq(str, 1, Min(hits) - 1)>>
             \o Split(SubSeq(str, Min(hits) + 1, Len(str)), sep)

\* String.prototype.replace(a, b) for one-character strings: the first a only
ReplaceFirst(str, a, b) ==
    LET hits == {k \in 1..Len(str) : str[k] = a}
    IN  IF hits = {} THEN str
        ELSE [k \in 1..Len(str) |-> IF k = Min(hits) THEN b ELSE str[k]]

\* parseFloat(str): the longest prefix that is a decimal numeral, else NaN
ParseFloat(str) ==
    LET ip   == DigitPrefix(str)
        rest == SubSeq(str, Len(ip) + 1, Len(str))
        fp   == IF rest # <<>> /\ rest[1] = "."
                THEN DigitPrefix(SubSeq(rest, 2, Len(rest)))
                ELSE <<>>
    IN  IF ip = <<>> /\ fp = <<>> THEN NaN ELSE DecimalValue(ip, fp)

\* parseInt(str): the longest prefix of digits, else NaN
ParseInt(str) ==
    LET ip == DigitPrefix(str)
    IN  IF ip = <<>> THEN NaN ELSE DInt(DigitsValue(ip))

\* Number(str): the whole string is a decimal numeral, "" is 0, else NaN
ToNumber(str) ==
    LET ip   == DigitPrefix(str)
        rest == SubSeq(str, Len(ip) + 1, Len(str))
        fp   == IF rest # <<>> /\ rest[1] = "."
                THEN SubSeq(rest, 2, Len(rest))
                ELSE <<>>
    IN  IF str = <<>> THEN DInt(0)
        ELSE IF rest # <<>> /\ rest[1] # "." THEN NaN
        ELSE IF fp # DigitPrefix(fp) THEN NaN
        ELSE IF ip = <<>> /\ fp = <<>> THEN NaN
        ELSE DecimalValue(ip, fp)

(***************************************************************************)
(* The two timestamp parsers.                                              *)
(***************************************************************************)
\* An ingestion parser without the replace(',', '.'): parseFloat stops at
\* the comma and the milliseconds are lost
ParseSRTTimeNoReplace(str) ==
    LET parts == Split(str, ":")
        n == Len(parts)
        OrZero(k) == IF k < 1 \/ parts[k] = <<>> THEN <<"0">> ELSE parts[k]
    IN  DAdd(DAdd(DMulK(ParseInt(OrZero(n - 2)), 3600),
                  DMulK(ParseInt(OrZero(n - 1)), 60)),
             ParseFloat(parts[n]))

\* src/services/gemini.ts: parseSRTTime.  parts[k] || "0" is "0" when the
\* part is missing or empty.
ParseSRTTime(str) ==
    LET parts   == Split(ReplaceFirst(str, ",", "."), ":")
        n       == Len(parts)
        OrZero(k) == IF k < 1 \/ parts[k] = <<>> THEN <<"0">> ELSE parts[k]
        seconds == ParseFloat(parts[n])
        minutes == ParseInt(OrZero(n - 1))
        hours   == ParseInt(OrZero(n - 2))
    IN  DAdd(DAdd(DMulK(hours, 3600), DMulK(minutes, 60)), seconds)

\* src/utils/srt.ts: parseTimeToSeconds.  A missing array element is
\* undefined, and Number(undefined) and undefined * 3600 are NaN.
ParseTimeToSeconds(str) ==
    LET pieces == Split(str, ",")
        hms    == Split(pieces[1], ":")
        Num(k) == IF k > Len(hms) THEN NaN ELSE ToNumber(hms[k])
        ms     == IF Len(pieces) < 2 THEN NaN ELSE ToNumber(pieces[2])
    IN  DAdd(DAdd(DAdd(DMulK(Num(1), 3600), DMulK(Num(2), 60)), Num(3)),
             DDivK(ms, 1000))

(***************************************************************************)
(* Ingestion: src/services/gemini.ts, processVideoWithAI.                  *)
(***************************************************************************)
\* An ingestion that lets the seconds fields of the upstream record win
WithSecondsUpstreamFirst(sub) ==
    IF "startSeconds" \in DOMAIN sub THEN sub
    ELSE [index          |-> sub.index,
          startTime      |-> sub.startTime,
          endTime        |-> sub.endTime,
          originalText   |-> sub.originalText,
          translatedText |-> sub.translatedText,
          startSeconds   |-> ParseSRTTime(sub.startTime),
          endSeconds     |-> ParseSRTTime(sub.endTime)]

\* { ...sub, startSeconds: parseSRTTime(sub.startTime),
\*           endSeconds: parseSRTTime(sub.endTime) }
WithSeconds(sub) ==
    [index          |-> sub.index,
     startTime      |-> sub.startTime,
     endTime        |-> sub.endTime,
     originalText   |-> sub.originalText,
     translatedText |-> sub.translatedText,
     startSeconds   |-> ParseSRTTime(sub.startTime),
     endSeconds     |-> ParseSRTTime(sub.endTime)]

\* (a, b) => a.startSeconds - b.startSeconds: the sign of the difference,
\* or "nan" when an operand is NaN
CompareFn(a, b) ==
    IF a.startSeconds.nan \/ b.startSeconds.nan THEN "nan"
    ELSE IF DLt(a.startSeconds, b.startSeconds) THEN "neg"
    ELSE IF DLt(b.startSeconds, a.startSeconds) THEN "pos"
    ELSE "zero"

\* ECMAScript SortCompare: a comparator result of NaN counts as +0
SortCompare(a, b) == IF CompareFn(a, b) = "nan" THEN "zero" ELSE CompareFn(a, b)

\* x put after the elements of the sorted list that do not compare above it
InsertSorted(sorted, x) ==
    LET above == {k \in 1..Len(sorted) : SortCompare(sorted[k], x) = "pos"}
    IN  IF above = {} THEN Append(sorted, x)
        ELSE SubSeq(sorted, 1, Min(above) - 1) \o <<x>>
             \o SubSeq(sorted, Min(above), Len(sorted))

RECURSIVE StableSort(_)
StableSort(list) ==
    IF list = <<>> THEN <<>>
    ELSE InsertSorted(StableSort(SubSeq(list, 1, Len(list) - 1)), list[Len(list)])

ListPermutations(list) ==
    LET n  == Len(list)
        ps == {p \in [1..n -> 1..n] : \A j, k \in 1..n : p[j] = p[k] => j = k}
    IN  {[k \in 1..n |-> list[p[k]]] : p \in ps}

\* An ingestion that leaves out the entries without a number for a time
ArraySortFiltered(list) ==
    LET IsTimed(s) == ~s.startSeconds.nan /\ ~s.endSeconds.nan
    IN  {StableSort(SelectSeq(list, IsTimed))}

\* Array.prototype.sort(comparefn): the orders the call may leave.  With a
\* consistent comparator the sort is stable and its result unique.  A
\* comparator that returns NaN for some pair of elements is not a consistent
\* comparator, and ECMAScript leaves the order to the implementation.
ArraySort(list) ==
    IF \E j, k \in 1..Len(list) : CompareFn(list[j], list[k]) = "nan"
    THEN ListPermutations(list)
    ELSE {StableSort(list)}

\* The lists processVideoWithAI may return for the parsed response raw
ProcessVideoWithAI(raw) ==
    ArraySort([k \in 1..Len(raw) |-> WithSeconds(raw[k])])

(***************************************************************************)
(* The active-subtitle lookup: src/unnamed/part_000, SubtitleOverlay, and  *)
(* src/unnamed/part_001, renderFrame.  Array.prototype.find returns the    *)
(* first element the predicate accepts, or undefined: <<x>> or <<>>.       *)
(***************************************************************************)
\* A lookup that leaves the end of the interval out
OverlayPredicateOpenEnd(s, t) == DGe(t, s.startSeconds) /\ DLt(t, s.endSeconds)

OverlayPredicate(s, t) == DGe(t, s.startSeconds) /\ DLe(t, s.endSeconds)

RECURSIVE OverlayFind(_, _, _)
OverlayFind(subs, t, k) ==
    IF k > Len(subs) THEN <<>>
    ELSE IF OverlayPredicate(subs[k], t) THEN <<subs[k]>>
    ELSE OverlayFind(subs, t, k + 1)

OverlayActiveSub(subs, t) == OverlayFind(subs, t, 1)

\* A frame lookup that leaves the end of the interval out
FramePredicateOpenEnd(s, cur) == DGe(cur, s.startSeconds) /\ DLt(cur, s.endSeconds)

FramePredicate(s, cur) == DGe(cur, s.startSeconds) /\ DLe(cur, s.endSeconds)

RECURSIVE FrameFind(_, _, _)
FrameFind(subs, cur, k) ==
    IF k > Len(subs) THEN <<>>
    ELSE IF FramePredicate(subs[k], cur) THEN <<subs[k]>>
    ELSE FrameFind(subs, cur, k + 1)

FrameSub(subs, cur) == FrameFind(subs, cur, 1)

(***************************************************************************)
(* The SRT serialiser: src/utils/srt.ts, generateSRT.                      *)
(***************************************************************************)
\* `${n}` for a positive integer n
RECURSIVE NumberToString(_)
NumberToString(n) ==
    IF n < 10 THEN <<DigitChars[n + 1]>>
    ELSE Append(NumberToString(n \div 10), DigitChars[(n % 10) + 1])

\* A serialiser that takes the texts of the two languages for each other
BlockTextSwapped(sub, mode) ==
    IF mode = "en" THEN sub.translatedText
    ELSE IF mode = "zh" THEN sub.originalText
    ELSE sub.translatedText \o <<"\n">> \o sub.originalText

\* The text of a block
BlockText(sub, mode) ==
    IF mode = "en" THEN sub.originalText
    ELSE IF mode = "zh" THEN sub.translatedText
    ELSE sub.originalText \o <<"\n">> \o sub.translatedText

\* A serialiser that numbers a block with the stored index
SrtBlockStoredIndex(sub, i, mode) ==
    NumberToString(sub.index) \o <<"\n">>
    \o sub.startTime \o <<" ", "-", "-", ">", " ">> \o sub.endTime \o <<"\n">>
    \o BlockText(sub, mode) \o <<"\n">>

\* `${i + 1}\n${sub.startTime} --> ${sub.endTime}\n${text}\n`, i from 0
SrtBlock(sub, i, mode) ==
    NumberToString(i + 1) \o <<"\n">>
    \o sub.startTime \o <<" ", "-", "-", ">", " ">> \o sub.endTime \o <<"\n">>
    \o BlockText(sub, mode) \o <<"\n">>

\* A join that leaves the separator out
RECURSIVE JoinNoSeparator(_, _)
JoinNoSeparator(strs, sep) ==
    IF strs = <<>> THEN <<>>
    ELSE strs[1] \o JoinNoSeparator(SubSeq(strs, 2, Len(strs)), sep)

\* Array.prototype.join(sep): "" for the empty array
RECURSIVE Join(_, _)
Join(strs, sep) ==
    IF strs = <<>> THEN <<>>
    ELSE IF Len(strs) = 1 THEN strs[1]
    ELSE strs[1] \o sep \o Join(SubSeq(strs, 2, Len(strs)), sep)

\* A serialiser that sorts the entries by start time first
GenerateSRTResorted(subs, mode) ==
    LET sorted == StableSort(subs)
    IN  Join([k \in 1..Len(sorted) |-> SrtBlock(sorted[k], k - 1, mode)], <<"\n">>)

\* A serialiser that ends every output, the empty one too, with a line break
GenerateSRTNewlineEnded(subs, mode) ==
    Join([k \in 1..Len(subs) |-> SrtBlock(subs[k], k - 1, mode)], <<"\n">>)
    \o <<"\n">>

GenerateSRT(subs, mode) ==
    Join([k \in 1..Len(subs) |-> SrtBlock(subs[k], k - 1, mode)], <<"\n">>)

(***************************************************************************)
(* Inputs: timestamp texts.                                                *)
(***************************************************************************)
\* n in decimal, zero-padded to w digits
Pad(n, w) == [k \in 1..w |-> DigitChars[((n \div Pow10(w - k)) % 10) + 1]]

\* "HH:MM:SS<sep>mmm"
TimeText(h, m, s, ms, sep) ==
    Pad(h, 2) \o <<":">> \o Pad(m, 2) \o <<":">> \o Pad(s, 2) \o <<sep>> \o Pad(ms, 3)

Hours == {0, 1, 99}

Minutes == {0, 1, 59}

Secs == {0, 1, 2, 59}

Millis == {0, 1, 118, 500, 999}

WellFormedTexts ==
    {TimeText(h, m, s, ms, ",") : h \in Hours, m \in Minutes, s \in Secs, ms \in Millis}

\* Texts that are not "HH:MM:SS,mmm": a '.' separator, missing components,
\* letters, the empty text
OtherTexts ==
    {TimeText(h, 1, s, ms, ".") : h \in {0, 1}, s \in {1, 59}, ms \in {0, 118, 500}}
    \cup {<<"0", "1", ":", "0", "2", ",", "5", "0", "0">>,
          <<"0", "2", ",", "5", "0", "0">>,
          <<"0", "0", ":", "0", "0", ":", "0", "1">>,
          <<"a", "b", "c">>,
          <<"0", "0", ":", "a", "b", ":", "0", "1", ",", "0", "0", "0">>,
          <<>>}

TimeTexts == WellFormedTexts \cup OtherTexts

\* str is "HH:MM:SS,mmm": twelve characters, digits around ':', ':' and ','
IsWellFormed(str) ==
    /\ Len(str) = 12
    /\ \A k \in 1..12 :
          IF k \in {3, 6} THEN str[k] = ":"
          ELSE IF k = 9 THEN str[k] = ","
          ELSE IsDigit(str[k])

(***************************************************************************)
(* The run of the timeline functions is idle while the parsers are         *)
(* applied, and the other way round.                                       *)
(***************************************************************************)
TimelineIdle ==
    /\ pc = "idle"
    /\ rawSubs = <<>>
    /\ subtitles = <<>>
    /\ currentTime = DInt(0)
    /\ activeSub = <<>>
    /\ frameSub = <<>>
    /\ srtMode = "bilingual"
    /\ srtOut = <<>>

ParseIdle ==
    /\ timeStr = <<>>
    /\ utilSeconds = <<>>
    /\ aiSeconds = <<>>

\* The App as useState leaves it, with no call of startAnalysis made, no
\* burn-in pass and nothing downloaded
AppIdle ==
    /\ video = <<>>
    /\ processing = [status |-> "idle", progress |-> 0, message |-> <<>>]
    /\ isSynthesizing = FALSE
    /\ runs = <<>>
    /\ videoTime = DInt(0)
    /\ burn = [stage |-> "none", isSynthesizing |-> FALSE, subtitles |-> <<>>, video |-> <<>>,
                ended |-> FALSE]
    /\ fileName = <<>>

(***************************************************************************)
(* SpecParse: the two parsers applied to one timestamp text.               *)
(***************************************************************************)
InitParse ==
    /\ timeStr \in TimeTexts
    /\ utilSeconds = <<>>
    /\ aiSeconds = <<>>
    /\ TimelineIdle
    /\ AppIdle

CallParseTimeToSeconds ==
    /\ utilSeconds = <<>>
    /\ utilSeconds' = <<ParseTimeToSeconds(timeStr)>>
    /\ UNCHANGED <<timeStr, aiSeconds, timelineVars, appVars>>

CallParseSRTTime ==
    /\ aiSeconds = <<>>
    /\ aiSeconds' = <<ParseSRTTime(timeStr)>>
    /\ UNCHANGED <<timeStr, utilSeconds, timelineVars, appVars>>

NextParse == CallParseTimeToSeconds \/ CallParseSRTTime

SpecParse == InitParse /\ [][NextParse]_vars

(***************************************************************************)
(* C10.                                                                    *)
(***************************************************************************)
\* The fields of a well-formed text, read by position
FieldH(str) == DigitsValue(SubSeq(str, 1, 2))
FieldM(str) == DigitsValue(SubSeq(str, 4, 5))
FieldS(str) == DigitsValue(SubSeq(str, 7, 8))
FieldMs(str) == DigitsValue(SubSeq(str, 10, 12))

\* hours*3600 + minutes*60 + seconds + milliseconds/1000 in double
\* arithmetic, evaluated left to right
FormulaSeconds(h, m, s, ms) ==
    DAdd(DAdd(DAdd(DInt(h * 3600), DInt(m * 60)), DInt(s)), DDivK(DInt(ms), 1000))

\* The next double above x (x finite and positive)
DNext(x) ==
    LET nz   == {l \in 1..Limbs : x.f[l] # 0}
        q    == IF x.i > 0 THEN 53 - BitLen(x.i)
                ELSE (Min(nz) * LimbBits - BitLen(x.f[Min(nz)]) + 1) + 52
        unit == [l \in 1..Limbs |-> IF l = LimbOf(q) THEN UnitOf(q) ELSE 0]
        r    == AddFrac(x.f, unit, Limbs, 0, <<>>)
    IN  [nan |-> FALSE, i |-> x.i + r[1], f |-> r[2]]

\* x and y are the same double or neighbours: at most one unit in the last
\* place apart
WithinOneUlp(x, y) ==
    /\ ~x.nan
    /\ ~y.nan
    /\ (x = y \/ y = DNext(x) \/ x = DNext(y))

BothParsed == utilSeconds # <<>> /\ aiSeconds # <<>>

\* C10 as claimed: for every well-formed timestamp 'HH:MM:SS,mmm' both
\* parsers return hours*3600 + minutes*60 + seconds + milliseconds/1000 and
\* the two results are the same number.
C10_ParsersAgreeExactly ==
    (IsWellFormed(timeStr) /\ BothParsed) =>
        /\ utilSeconds[1] = FormulaSeconds(FieldH(timeStr), FieldM(timeStr),
                                           FieldS(timeStr), FieldMs(timeStr))
        /\ aiSeconds[1] = utilSeconds[1]

\* C10 as amended: for every well-formed timestamp, parseTimeToSeconds
\* returns hours*3600 + minutes*60 + seconds + milliseconds/1000 as double
\* arithmetic evaluates it; parseSRTTime returns the same double or a
\* neighbouring one (at most one unit in the last place away), and the same
\* double whenever the milliseconds are 000.
C10_ParsersAgreeWithinOneUlp ==
    (IsWellFormed(timeStr) /\ BothParsed) =>
        LET exact == FormulaSeconds(FieldH(timeStr), FieldM(timeStr),
                                    FieldS(timeStr), FieldMs(timeStr))
        IN  /\ utilSeconds[1] = exact
            /\ WithinOneUlp(aiSeconds[1], exact)
            /\ (FieldMs(timeStr) = 0 => aiSeconds[1] = exact)

\* Both parsers have returned for "00:00:01,118", where they differ
C10_Witness ==
    /\ timeStr = TimeText(0, 0, 1, 118, ",")
    /\ BothParsed
    /\ utilSeconds[1] # aiSeconds[1]
    /\ ~utilSeconds[1].nan
    /\ ~aiSeconds[1].nan

(***************************************************************************)
(* Inputs: the responses of the service, playback times, export modes.     *)
(* "h" stands for the one-character translation U+55E8 of "Hi".            *)
(***************************************************************************)
\* Longest response of the service
MaxSegs == 3

Segment(idx, start, end, original, translated) ==
    [index          |-> idx,
     startTime      |-> start,
     endTime        |-> end,
     originalText   |-> original,
     translatedText |-> translated]

\* 00:00:01,000 --> 00:00:02,500, "Hi", U+55E8
SegHi == Segment(1, TimeText(0, 0, 1, 0, ","), TimeText(0, 0, 2, 500, ","),
                 <<"H", "i">>, <<"h">>)

\* [2.0, 4.0], stored index 5
SegTwoFour == Segment(5, TimeText(0, 0, 2, 0, ","), TimeText(0, 0, 4, 0, ","),
                      <<"a">>, <<"b">>)

\* The same start as SegTwoFour, stored index 2, no source text
SegTwoEight == Segment(2, TimeText(0, 0, 2, 0, ","), TimeText(0, 0, 8, 0, ","),
                       <<>>, <<"c">>)

\* A = [0, 5], no translation
SegA == Segment(3, TimeText(0, 0, 0, 0, ","), TimeText(0, 0, 5, 0, ","),
                <<"A">>, <<>>)

\* B = [3, 8] with '.' separators
SegB == Segment(4, TimeText(0, 0, 3, 0, "."), TimeText(0, 0, 8, 0, "."),
                <<"B">>, <<"b">>)

\* A start that is no timestamp
SegBad == Segment(6, <<"a", "b", "c">>, TimeText(0, 0, 4, 0, ","),
                  <<"d">>, <<"d">>)

\* A segment whose end precedes its start
SegReversed == Segment(7, TimeText(0, 0, 5, 0, ","), TimeText(0, 0, 3, 0, ","),
                       <<"r">>, <<"r">>)

RawSegments == {SegHi, SegTwoFour, SegTwoEight, SegA, SegB, SegBad, SegReversed}

RawLists == UNION {[1..n -> RawSegments] : n \in 0..MaxSegs}

\* The number literal ms/1000
Sec(ms) == DDivK(DInt(ms), 1000)

TimeMillis == {0, 1999, 2000, 4000, 4001, 8000}

Times == {Sec(ms) : ms \in TimeMillis}

Modes == {"en", "zh", "bilingual"}

(***************************************************************************)
(* SpecTimeline: one response of the service is ingested, then the list    *)
(* is looked up at a playback time (by the overlay or by the burn-in frame *)
(* loop) or serialised.                                                    *)
(***************************************************************************)
InitTimeline ==
    /\ pc = "start"
    /\ rawSubs \in RawLists
    /\ subtitles = <<>>
    /\ currentTime = DInt(0)
    /\ activeSub = <<>>
    /\ frameSub = <<>>
    /\ srtMode = "bilingual"
    /\ srtOut = <<>>
    /\ ParseIdle
    /\ AppIdle

\* processVideoWithAI returns and its result becomes the held list
Ingest ==
    /\ pc = "start"
    /\ subtitles' \in ProcessVideoWithAI(rawSubs)
    /\ pc' = "ingested"
    /\ UNCHANGED <<rawSubs, currentTime, activeSub, frameSub, srtMode, srtOut, parseVars,
                 appVars>>

\* SubtitleOverlay renders at playback time t
RenderOverlay(t) ==
    /\ pc = "ingested"
    /\ currentTime' = t
    /\ activeSub' = OverlayActiveSub(subtitles, t)
    /\ pc' = "overlay"
    /\ UNCHANGED <<rawSubs, subtitles, frameSub, srtMode, srtOut, parseVars, appVars>>

\* renderFrame looks the subtitle up at videoEl.currentTime = cur
RenderFrame(cur) ==
    /\ pc = "ingested"
    /\ currentTime' = cur
    /\ frameSub' = FrameSub(subtitles, cur)
    /\ pc' = "frame"
    /\ UNCHANGED <<rawSubs, subtitles, activeSub, srtMode, srtOut, parseVars, appVars>>

\* generateSRT(subtitles, mode) is applied to the held list
CallGenerateSRT(lang) ==
    /\ pc = "ingested"
    /\ srtMode' = lang
    /\ srtOut' = GenerateSRT(subtitles, lang)
    /\ pc' = "exported"
    /\ UNCHANGED <<rawSubs, subtitles, currentTime, activeSub, frameSub, parseVars,
                 appVars>>

NextTimeline ==
    \/ Ingest
    \/ \E t \in Times : RenderOverlay(t)
    \/ \E cur \in Times : RenderFrame(cur)
    \/ \E lang \in Modes : CallGenerateSRT(lang)

SpecTimeline == InitTimeline /\ [][NextTimeline]_vars

(***************************************************************************)
(* C1 to C4: lookup and ingestion.                                         *)
(***************************************************************************)
Looked == pc \in {"overlay", "frame"}

\* What the lookup that ran returned
Found == IF pc = "overlay" THEN activeSub ELSE frameSub

\* Entry k of the held list contains the playback time, both ends included
Contains(k) ==
    /\ DGe(currentTime, subtitles[k].startSeconds)
    /\ DLe(currentTime, subtitles[k].endSeconds)

\* The held list is the one subtitle [2.0, 4.0]
IsTwoFourAlone ==
    /\ Len(subtitles) = 1
    /\ subtitles[1].startTime = TimeText(0, 0, 2, 0, ",")
    /\ subtitles[1].endTime = TimeText(0, 0, 4, 0, ",")

\* C1: the lookup of the overlay and of the burn-in frame loop returns the
\* first entry in list order whose interval contains t, both ends included,
\* and none when no interval contains t; for the one subtitle [2.0, 4.0] it
\* is none at 1.999, the subtitle at 2.0 and at 4.0, none at 4.001.
C1_LookupFirstContaining ==
    Looked =>
        /\ (Found = <<>>) <=> (\A k \in 1..Len(subtitles) : ~Contains(k))
        /\ Found # <<>> =>
              \E k \in 1..Len(subtitles) :
                  /\ Contains(k)
                  /\ Found = <<subtitles[k]>>
                  /\ \A j \in 1..(k - 1) : ~Contains(j)
        /\ IsTwoFourAlone =>
              /\ currentTime = Sec(1999) => Found = <<>>
              /\ currentTime = Sec(2000) => Found = <<subtitles[1]>>
              /\ currentTime = Sec(4000) => Found = <<subtitles[1]>>
              /\ currentTime = Sec(4001) => Found = <<>>

\* The overlay found the one subtitle [2.0, 4.0] at its inclusive end 4.0
C1_Witness ==
    /\ pc = "overlay"
    /\ IsTwoFourAlone
    /\ currentTime = Sec(4000)
    /\ activeSub = <<subtitles[1]>>

\* C2: after ingestion the held list is in ascending order of startSeconds:
\* result[i].startSeconds <= result[i+1].startSeconds for adjacent entries,
\* for any list of raw segments.
C2_IngestedAscending ==
    pc # "start" =>
        \A k \in 1..(Len(subtitles) - 1) :
            DLe(subtitles[k].startSeconds, subtitles[k + 1].startSeconds)

\* C3: among the entries of an ingested list that contain t, the lookup
\* returns one with the smallest startSeconds, whatever the order of
\* delivery.
C3_LookupEarliestStart ==
    (Looked /\ Found # <<>>) =>
        \A k \in 1..Len(subtitles) :
            Contains(k) => DLe(Found[1].startSeconds, subtitles[k].startSeconds)

\* The raw fields of an ingested entry
RawOf(sub) ==
    Segment(sub.index, sub.startTime, sub.endTime, sub.originalText, sub.translatedText)

Exported == pc = "exported"

Lines == Split(srtOut, "\n")

PerBlock == IF srtMode = "bilingual" THEN 5 ELSE 4

NBlocks == Len(subtitles)

\* Line j of block k of the lines split off the output
Line(lines, k, j) == lines[(k - 1) * PerBlock + j]

\* One block per entry
OneBlockEach(lines) == NBlocks > 0 => Len(lines) = NBlocks * PerBlock

IsNumeral(str) ==
    /\ str # <<>>
    /\ \A k \in 1..Len(str) : IsDigit(str[k])
    /\ str[1] # "0"

\* C5: the k-th block of the output carries the number k, whatever the
\* stored index values are.
C5_BlocksNumberedByPosition ==
    Exported =>
        LET lines == Lines IN
        /\ OneBlockEach(lines)
        /\ \A k \in 1..NBlocks :
              IsNumeral(Line(lines, k, 1)) /\ DigitsValue(Line(lines, k, 1)) = k

\* A list with the stored indexes 5 then 2 has been serialised
C5_Witness ==
    /\ Exported
    /\ NBlocks = 2
    /\ subtitles[1].index = 5
    /\ subtitles[2].index = 2

\* C6: one block per entry, in the order of the array: the k-th block
\* carries the startTime and endTime of the k-th entry, also when the list
\* is not sorted by start time.
C6_BlocksInArrayOrder ==
    Exported =>
        LET lines == Lines IN
        /\ OneBlockEach(lines)
        /\ \A k \in 1..NBlocks :
              Line(lines, k, 2) = subtitles[k].startTime \o <<" ", "-", "-", ">", " ">>
                           \o subtitles[k].endTime

\* A list whose first entry starts after its second has been serialised
C6_Witness ==
    /\ Exported
    /\ NBlocks >= 2
    /\ DLt(subtitles[2].startSeconds, subtitles[1].startSeconds)

\* C7: the text of a block is originalText in mode 'en', translatedText in
\* mode 'zh', and originalText, a line break, translatedText in bilingual
\* mode; an empty text gives an empty line.
C7_TextChosenByMode ==
    Exported =>
        LET lines == Lines IN
        /\ OneBlockEach(lines)
        /\ \A k \in 1..NBlocks :
              /\ srtMode = "en" => Line(lines, k, 3) = subtitles[k].originalText
              /\ srtMode = "zh" => Line(lines, k, 3) = subtitles[k].translatedText
              /\ srtMode = "bilingual" =>
                    /\ Line(lines, k, 3) = subtitles[k].originalText
                    /\ Line(lines, k, 4) = subtitles[k].translatedText

\* An entry without source text has been serialised in mode 'en'
C7_Witness ==
    /\ Exported
    /\ srtMode = "en"
    /\ NBlocks >= 1
    /\ subtitles[1].originalText = <<>>
    /\ subtitles[1].translatedText # <<>>

\* "1\n00:00:01,000 --> 00:00:02,500\nHi\n<U+55E8>\n"
HiBilingualText ==
    <<"1", "\n",
      "0", "0", ":", "0", "0", ":", "0", "1", ",", "0", "0", "0",
      " ", "-", "-", ">", " ",
      "0", "0", ":", "0", "0", ":", "0", "2", ",", "5", "0", "0", "\n",
      "H", "i", "\n",
      "h", "\n">>

IsHiAlone ==
    /\ NBlocks = 1
    /\ RawOf(subtitles[1]) = SegHi

\* C8: every block, the last one too, is the number line, the times line,
\* the text line or lines and then an empty line, and the next block's
\* number line follows that one empty line; the single bilingual entry
\* (00:00:01,000 to 00:00:02,500, 'Hi', U+55E8) gives exactly its four lines
\* and the empty line.
C8_BlockLayout ==
    Exported =>
        LET lines == Lines IN
        /\ OneBlockEach(lines)
        /\ \A k \in 1..NBlocks :
              /\ IsNumeral(Line(lines, k, 1))
              /\ Line(lines, k, 2) # <<>>
              /\ Line(lines, k, PerBlock) = <<>>
        /\ (IsHiAlone /\ srtMode = "bilingual") =>
              /\ srtOut = HiBilingualText
              /\ lines = <<<<"1">>, SegHi.startTime \o <<" ", "-", "-", ">", " ">>
                                    \o SegHi.endTime,
                           <<"H", "i">>, <<"h">>, <<>>>>

\* The single entry 'Hi' has been serialised in bilingual mode
C8_Witness ==
    /\ Exported
    /\ IsHiAlone
    /\ srtMode = "bilingual"

\* C9: generateSRT of the empty list is the empty string in each mode, and
\* the lookup in the empty list finds nothing at any time.
C9_EmptyInput ==
    /\ (Exported /\ subtitles = <<>>) => srtOut = <<>>
    /\ (Looked /\ subtitles = <<>>) => Found = <<>>

\* The empty list has been serialised in mode 'zh'
C9_Witness ==
    /\ Exported
    /\ subtitles = <<>>
    /\ srtMode = "zh"

(***************************************************************************)
(* C11: the '.' separator.                                                 *)
(***************************************************************************)
\* str is "HH:MM:SS.mmm"
IsDotForm(str) ==
    /\ Len(str) = 12
    /\ \A k \in 1..12 :
          IF k \in {3, 6} THEN str[k] = ":"
          ELSE IF k = 9 THEN str[k] = "."
          ELSE IsDigit(str[k])

\* The same timestamp written with ','
CommaForm(str) == [str EXCEPT ![9] = ","]

\* C11: for every 'HH:MM:SS.mmm' each of the two parsers returns the number
\* it returns for 'HH:MM:SS,mmm'.
C11_DotSeparatorAccepted ==
    (IsDotForm(timeStr) /\ BothParsed) =>
        /\ DEq(utilSeconds[1], ParseTimeToSeconds(CommaForm(timeStr)))
        /\ DEq(aiSeconds[1], ParseSRTTime(CommaForm(timeStr)))

(***************************************************************************)
(* C12: malformed timestamps.                                              *)
(***************************************************************************)
RECURSIVE Flatten(_)
Flatten(seqs) ==
    IF seqs = <<>> THEN <<>>
    ELSE seqs[1] \o Flatten(SubSeq(seqs, 2, Len(seqs)))

\* The components of a timestamp text: its pieces between ':' and ','
Components(str) ==
    LET byColon == Split(str, ":")
    IN  Flatten([k \in 1..Len(byColon) |-> Split(byColon[k], ",")])

\* Digits, or digits '.' digits (the seconds of the '.' form)
IsNumericComponent(c) ==
    LET ip   == DigitPrefix(c)
        rest == SubSeq(c, Len(ip) + 1, Len(c))
    IN  /\ ip # <<>>
        /\ \/ rest = <<>>
           \/ /\ Len(rest) >= 2
              /\ rest[1] = "."
              /\ \A k \in 2..Len(rest) : IsDigit(rest[k])

\* Fewer than 3 components, or a component that is not numeric
IsMalformed(str) ==
    \/ Len(Components(str)) < 3
    \/ \E k \in 1..Len(Components(str)) : ~IsNumericComponent(Components(str)[k])

\* C12: neither parser ever returns a value, NaN or a number, for a
\* malformed timestamp text (it fails with MalformedTimestampError instead).
C12_MalformedNeverReturns ==
    IsMalformed(timeStr) => (utilSeconds = <<>> /\ aiSeconds = <<>>)

(***************************************************************************)
(* C13, C14: what ingestion lets through.                                  *)
(***************************************************************************)
\* C13: every entry of the list held after ingestion, and so of every list
\* a lookup runs on, has numbers for startSeconds and endSeconds.
C13_NoNaNHeld ==
    pc # "start" =>
        \A k \in 1..Len(subtitles) :
            ~subtitles[k].startSeconds.nan /\ ~subtitles[k].endSeconds.nan

\* C14: no entry held after ingestion ends before it starts (for numbers,
\* startSeconds <= endSeconds); a raw segment whose end precedes its start
\* is dropped and the other segments of the batch are kept.
C14_ReversedDropped ==
    pc # "start" =>
        /\ \A k \in 1..Len(subtitles) :
              ~DLt(subtitles[k].endSeconds, subtitles[k].startSeconds)
        /\ \A k \in 1..Len(rawSubs) :
              ~DLt(ParseSRTTime(rawSubs[k].endTime), ParseSRTTime(rawSubs[k].startTime))
                  => \E j \in 1..Len(subtitles) : RawOf(subtitles[j]) = rawSubs[k]

(***************************************************************************)
(* The App component: src/unnamed/part_001.  A message is a sequence of    *)
(* pieces of text, <<>> being the empty string; a file name and the        *)
(* message of an underlying error are sequences of characters.  The state  *)
(* duration, isPlaying and synthesisProgress is display only and left out. *)
(***************************************************************************)
\* str.includes(sub)
Includes(str, sub) ==
    \E k \in 0..(Len(str) - Len(sub)) : SubSeq(str, k + 1, k + Len(sub)) = sub

\* A default that is never taken
OrDefaultNever(a, b) == a

\* a || b on strings: b when a is empty
OrDefault(a, b) == IF a = <<>> THEN b ELSE a

\* A catch that looks for '429' before 'fetch'
ThrownMessageRateLimitFirst(u) ==
    IF Includes(u, <<"4", "2", "9">>)
    THEN <<"Rate limit exceeded: Please wait a moment before trying again.">>
    ELSE IF Includes(u, <<"f", "e", "t", "c", "h">>)
    THEN <<"Network error: Please check your internet connection.">>
    ELSE IF Includes(u, <<"S", "A", "F", "E", "T", "Y">>)
    THEN <<"Content filtered: The AI cannot process this audio due to safety guidelines.">>
    ELSE IF u = <<"E", "M", "P", "T", "Y", "_", "R", "E", "S", "P", "O", "N", "S", "E">>
    THEN <<"Processing failed: No speech was detected or identified in the audio.">>
    ELSE <<"AI Analysis Error: ">>
         \o (IF u = <<>> THEN <<"An unexpected error occurred during processing.">> ELSE u)

\* src/services/gemini.ts, the catch of processVideoWithAI: the message of
\* the Error thrown for an underlying error with message u
ThrownMessage(u) ==
    IF Includes(u, <<"f", "e", "t", "c", "h">>)
    THEN <<"Network error: Please check your internet connection.">>
    ELSE IF Includes(u, <<"4", "2", "9">>)
    THEN <<"Rate limit exceeded: Please wait a moment before trying again.">>
    ELSE IF Includes(u, <<"S", "A", "F", "E", "T", "Y">>)
    THEN <<"Content filtered: The AI cannot process this audio due to safety guidelines.">>
    ELSE IF u = <<"E", "M", "P", "T", "Y", "_", "R", "E", "S", "P", "O", "N", "S", "E">>
    THEN <<"Processing failed: No speech was detected or identified in the audio.">>
    ELSE <<"AI Analysis Error: ">>
         \o OrDefault(u, <<"An unexpected error occurred during processing.">>)

\* `Extracting Audio (${Math.round(prog * 3.3)}%)...`
ExtractingMessage(prog) ==
    <<"Extracting Audio (">> \o NumberToString((prog * 33 + 5) \div 10) \o <<"%)...">>

\* An overlay that shows the first entry at every time
RenderedFirstEntry(v, subs, t) == IF v = <<>> \/ subs = <<>> THEN <<>> ELSE <<subs[1]>>

\* What the App shows over the video: the overlay is rendered only with a
\* video loaded
Rendered(v, subs, t) == IF v = <<>> THEN <<>> ELSE OverlayActiveSub(subs, t)

\* `${video?.name.split('.')[0] || 'subtitles'}`
NameStem(v) ==
    IF v = <<>> THEN <<"subtitles">>
    ELSE OrDefault(Split(v[1], ".")[1], <<"subtitles">>)

\* downloadSRT: `${stem}_${lang}.srt`
SrtFileName(v, lang) == NameStem(v) \o <<"_", lang, ".srt">>

\* recorder.onstop: `${video.name.split('.')[0]}_bilingual.webm`
WebmFileName(v) == Split(v[1], ".")[1] \o <<"_bilingual.webm">>

(***************************************************************************)
(* The handlers of the App.  Each stretch of a handler between two awaits  *)
(* is one step: React commits the state updates of a stretch together.     *)
(* A call of startAnalysis is a record of runs: the name of the video it   *)
(* was started for, its phase ("loading" until the hidden video has its    *)
(* metadata, "recording" until extractAudioEfficiently settles,            *)
(* "analyzing" until processVideoWithAI settles, then "completed" or       *)
(* "error"), and whether its updateProgress loop has a frame requested.    *)
(***************************************************************************)
\* Calls of startAnalysis that have not ended at one time
MaxRuns == 2

\* A call that has not ended
InFlight(run) == run.phase \in {"loading", "recording", "analyzing"}

\* A call that has not ended, or whose updateProgress has a frame requested
Live(run) == InFlight(run) \/ run.loop

SetPhase(r, phase, loop) == [runs EXCEPT ![r].phase = phase, ![r].loop = loop]

\* handleFileUpload with a file chosen; the new src resets the player
HandleFileUpload(name) ==
    /\ pc = "app"
    /\ video' = <<name>>
    /\ subtitles' = <<>>
    /\ processing' = [status |-> "idle", progress |-> 0, message |-> <<>>]
    /\ currentTime' = DInt(0)
    /\ videoTime' = DInt(0)
    /\ activeSub' = Rendered(video', subtitles', currentTime')
    /\ UNCHANGED <<pc, rawSubs, frameSub, srtMode, srtOut, isSynthesizing, runs, burn,
                   fileName, parseVars>>

\* startAnalysis up to the await of extractAudioEfficiently; the button is
\* rendered with a video and disabled while extracting or analyzing.  The
\* calls that are over are forgotten; limit bounds the live ones.
StartAnalysis(limit) ==
    /\ pc = "app"
    /\ video # <<>>
    /\ processing.status \in {"idle", "completed", "error"}
    /\ Len(SelectSeq(runs, Live)) < limit
    /\ processing' = [status |-> "extracting", progress |-> 5,
                      message |-> <<"Preparing audio extraction...">>]
    /\ runs' = Append(SelectSeq(runs, Live),
                      [video |-> video[1], phase |-> "loading", loop |-> FALSE])
    /\ UNCHANGED <<pc, rawSubs, subtitles, currentTime, activeSub, frameSub, srtMode,
                   srtOut, video, isSynthesizing, videoTime, burn, fileName, parseVars>>

\* hiddenVideo.onloadedmetadata: the recorder starts and updateProgress runs
\* for the first time, at currentTime 0
LoadedMetadata(r) ==
    /\ pc = "app"
    /\ r \in 1..Len(runs)
    /\ runs[r].phase = "loading"
    /\ processing' = [processing EXCEPT !.progress = 10,
                                        !.message = ExtractingMessage(0)]
    /\ runs' = SetPhase(r, "recording", TRUE)
    /\ UNCHANGED <<pc, rawSubs, subtitles, currentTime, activeSub, frameSub, srtMode,
                   srtOut, video, isSynthesizing, videoTime, burn, fileName, parseVars>>

\* A requested frame of updateProgress: prog = round(currentTime / duration
\* * 30); another frame is requested (more) while the hidden video plays
UpdateProgress(r, prog, more) ==
    /\ pc = "app"
    /\ r \in 1..Len(runs)
    /\ runs[r].loop
    /\ more => runs[r].phase = "recording"
    /\ processing' = [processing EXCEPT !.progress = 10 + prog,
                                        !.message = ExtractingMessage(prog)]
    /\ runs' = [runs EXCEPT ![r].loop = more]
    /\ UNCHANGED <<pc, rawSubs, subtitles, currentTime, activeSub, frameSub, srtMode,
                   srtOut, video, isSynthesizing, videoTime, burn, fileName, parseVars>>

\* extractAudioEfficiently resolves; startAnalysis goes on to the await of
\* processVideoWithAI, which has called onProgress once before its own await
ExtractResolve(r) ==
    /\ pc = "app"
    /\ r \in 1..Len(runs)
    /\ runs[r].phase = "recording"
    /\ processing' =
          [status |-> "analyzing", progress |-> Min({40 + 2, 98}),
           message |-> <<"Using Gemini to analyze audio and generate exhaustive bilingual subtitles...">>]
    /\ runs' = SetPhase(r, "analyzing", runs[r].loop)
    /\ UNCHANGED <<pc, rawSubs, subtitles, currentTime, activeSub, frameSub, srtMode,
                   srtOut, video, isSynthesizing, videoTime, burn, fileName, parseVars>>

\* A failure that also empties the list
ExtractRejectClearing(r, msg) ==
    /\ pc = "app"
    /\ r \in 1..Len(runs)
    /\ runs[r].phase \in {"loading", "recording"}
    /\ msg = <<"Extraction timed out.">> => runs[r].phase = "recording"
    /\ processing' = [status |-> "error", progress |-> 0,
                      message |-> IF msg = <<>> THEN <<"Processing failed.">> ELSE msg]
    /\ runs' = [runs EXCEPT ![r].phase = "error"]
    /\ subtitles' = <<>>
    /\ activeSub' = <<>>
    /\ UNCHANGED <<pc, rawSubs, currentTime, frameSub, srtMode, srtOut, video,
                   isSynthesizing, videoTime, burn, fileName, parseVars>>

\* extractAudioEfficiently rejects with an Error of message msg (playback
\* error, timeout while recording, or what onstop caught); the catch of
\* startAnalysis runs
ExtractReject(r, msg) ==
    /\ pc = "app"
    /\ r \in 1..Len(runs)
    /\ runs[r].phase \in {"loading", "recording"}
    /\ msg = <<"Extraction timed out.">> => runs[r].phase = "recording"
    /\ processing' = [status |-> "error", progress |-> 0,
                      message |-> OrDefault(msg, <<"Processing failed.">>)]
    /\ runs' = SetPhase(r, "error", runs[r].loop)
    /\ UNCHANGED <<pc, rawSubs, subtitles, currentTime, activeSub, frameSub, srtMode,
                   srtOut, video, isSynthesizing, videoTime, burn, fileName, parseVars>>

\* A completion that adds the result to the list held
AIResolveAppending(r, raw) ==
    /\ pc = "app"
    /\ r \in 1..Len(runs)
    /\ runs[r].phase = "analyzing"
    /\ \E result \in ProcessVideoWithAI(raw) : subtitles' = subtitles \o result
    /\ processing' = [status |-> "completed", progress |-> 100,
                      message |-> <<"Bilingual subtitles ready!">>]
    /\ runs' = [runs EXCEPT ![r].phase = "completed"]
    /\ activeSub' = IF video = <<>> THEN <<>> ELSE OverlayActiveSub(subtitles', currentTime)
    /\ UNCHANGED <<pc, rawSubs, currentTime, frameSub, srtMode, srtOut, video,
                   isSynthesizing, videoTime, burn, fileName, parseVars>>

\* processVideoWithAI resolves for the response raw; setSubtitles(result)
AIResolve(r, raw) ==
    /\ pc = "app"
    /\ r \in 1..Len(runs)
    /\ runs[r].phase = "analyzing"
    /\ subtitles' \in ProcessVideoWithAI(raw)
    /\ processing' = [status |-> "completed", progress |-> 100,
                      message |-> <<"Bilingual subtitles ready!">>]
    /\ runs' = SetPhase(r, "completed", runs[r].loop)
    /\ activeSub' = Rendered(video, subtitles', currentTime)
    /\ UNCHANGED <<pc, rawSubs, currentTime, frameSub, srtMode, srtOut, video,
                   isSynthesizing, videoTime, burn, fileName, parseVars>>

\* A rejection that no catch handles: the call ends and the status stays
AIRejectUncaught(r, u) ==
    /\ pc = "app"
    /\ r \in 1..Len(runs)
    /\ runs[r].phase = "analyzing"
    /\ runs' = [runs EXCEPT ![r].phase = "error"]
    /\ UNCHANGED <<pc, rawSubs, subtitles, currentTime, activeSub, frameSub, srtMode,
                   srtOut, video, processing, isSynthesizing, videoTime, burn, fileName,
                   parseVars>>

\* processVideoWithAI throws for an underlying error of message u; the catch
\* of startAnalysis runs
AIReject(r, u) ==
    /\ pc = "app"
    /\ r \in 1..Len(runs)
    /\ runs[r].phase = "analyzing"
    /\ processing' = [status |-> "error", progress |-> 0,
                      message |-> OrDefault(ThrownMessage(u), <<"Processing failed.">>)]
    /\ runs' = SetPhase(r, "error", runs[r].loop)
    /\ UNCHANGED <<pc, rawSubs, subtitles, currentTime, activeSub, frameSub, srtMode,
                   srtOut, video, isSynthesizing, videoTime, burn, fileName, parseVars>>

\* downloadSRT(lang); the export section is rendered with a non-empty list
DownloadSRT(lang) ==
    /\ pc = "app"
    /\ subtitles # <<>>
    /\ srtMode' = lang
    /\ srtOut' = GenerateSRT(subtitles, lang)
    /\ fileName' = <<SrtFileName(video, lang)>>
    /\ UNCHANGED <<pc, rawSubs, subtitles, currentTime, activeSub, frameSub, video,
                   processing, isSynthesizing, runs, videoTime, burn, parseVars>>

\* The player moves to time t while it plays
VideoPlays(t) ==
    /\ pc = "app"
    /\ video # <<>>
    /\ videoTime' = t
    /\ UNCHANGED <<pc, rawSubs, subtitles, currentTime, activeSub, frameSub, srtMode,
                   srtOut, video, processing, isSynthesizing, runs, burn, fileName,
                   parseVars>>

\* handleTimeUpdate: the timeupdate event of the player
HandleTimeUpdate ==
    /\ pc = "app"
    /\ video # <<>>
    /\ currentTime' = videoTime
    /\ activeSub' = Rendered(video, subtitles, currentTime')
    /\ UNCHANGED <<pc, rawSubs, subtitles, frameSub, srtMode, srtOut, video, processing,
                   isSynthesizing, runs, videoTime, burn, fileName, parseVars>>

\* handleSeek: the range input moved to time
HandleSeek(time) ==
    /\ pc = "app"
    /\ video # <<>>
    /\ videoTime' = time
    /\ currentTime' = time
    /\ activeSub' = Rendered(video, subtitles, currentTime')
    /\ UNCHANGED <<pc, rawSubs, subtitles, frameSub, srtMode, srtOut, video, processing,
                   isSynthesizing, runs, burn, fileName, parseVars>>

\* synthesizeVideo up to the await of videoEl.play(), or to its return when
\* there is no 2D context (hasCtx false).  The button is rendered with a
\* non-empty list; renderFrame and onstop close over the isSynthesizing,
\* the subtitles and the video of the render the click came from.
SynthesizeVideo(hasCtx) ==
    /\ pc = "app"
    /\ subtitles # <<>>
    /\ video # <<>>
    /\ burn.stage = "none"
    /\ isSynthesizing' = TRUE
    /\ IF hasCtx
       THEN /\ burn' = [stage |-> "starting", isSynthesizing |-> isSynthesizing,
                        subtitles |-> subtitles, video |-> video, ended |-> FALSE]
            /\ videoTime' = DInt(0)
       ELSE UNCHANGED <<burn, videoTime>>
    /\ UNCHANGED <<pc, rawSubs, subtitles, currentTime, activeSub, frameSub, srtMode,
                   srtOut, video, processing, runs, fileName, parseVars>>

\* videoEl.play() rejects: synthesizeVideo ends there, the recorder running
PlayRejects ==
    /\ pc = "app"
    /\ burn.stage = "starting"
    /\ burn' = [burn EXCEPT !.stage = "abandoned"]
    /\ UNCHANGED <<pc, rawSubs, subtitles, currentTime, activeSub, frameSub, srtMode,
                   srtOut, video, processing, isSynthesizing, runs, videoTime, fileName,
                   parseVars>>

\* renderFrame: the call after videoEl.play() resolved, or a requested
\* frame.  It stops the recorder when the video has ended or the captured
\* isSynthesizing is false; else it looks the subtitle up, paints and
\* requests the next frame.  ended is videoEl.ended as the frame reads it.
RenderFrameStep(ended) ==
    /\ pc = "app"
    /\ burn.stage \in {"starting", "frames"}
    /\ IF ended \/ ~burn.isSynthesizing
       THEN /\ burn' = [burn EXCEPT !.stage = "stopping", !.ended = ended]
            /\ UNCHANGED frameSub
       ELSE /\ burn' = [burn EXCEPT !.stage = "frames"]
            /\ frameSub' = FrameSub(burn.subtitles, videoTime)
    /\ UNCHANGED <<pc, rawSubs, subtitles, currentTime, activeSub, srtMode, srtOut, video,
                   processing, isSynthesizing, runs, videoTime, fileName, parseVars>>

\* recorder.onstop: the recording is offered for download and the flag is
\* cleared
RecorderStopped ==
    /\ pc = "app"
    /\ burn.stage = "stopping"
    /\ fileName' = <<WebmFileName(burn.video)>>
    /\ isSynthesizing' = FALSE
    /\ burn' = [stage |-> "none", isSynthesizing |-> FALSE, subtitles |-> <<>>, video |-> <<>>,
                ended |-> FALSE]
    /\ UNCHANGED <<pc, rawSubs, subtitles, currentTime, activeSub, frameSub, srtMode,
                   srtOut, video, processing, runs, videoTime, parseVars>>

\* The Cancel Synthesis button of the modal
CancelSynthesis ==
    /\ pc = "app"
    /\ isSynthesizing
    /\ isSynthesizing' = FALSE
    /\ UNCHANGED <<pc, rawSubs, subtitles, currentTime, activeSub, frameSub, srtMode,
                   srtOut, video, processing, runs, videoTime, burn, fileName, parseVars>>

(***************************************************************************)
(* Spec: the App, every handler, on a small set of inputs.                 *)
(***************************************************************************)
\* "a.b.mp4"
TalkFile == <<"a", ".", "b", ".", "m", "p", "4">>

\* A raw segment that carries seconds fields of its own
SegCarrying ==
    [index          |-> 8,
     startTime      |-> TimeText(0, 0, 2, 0, ","),
     endTime        |-> TimeText(0, 0, 4, 1, ","),
     originalText   |-> <<"u">>,
     translatedText |-> <<"v">>,
     startSeconds   |-> DInt(99),
     endSeconds     |-> DInt(0)]

AppResponses == {<<SegBad>>, <<SegCarrying>>}

AppTimes == {Sec(0), Sec(2000)}

InitApp ==
    /\ pc = "app"
    /\ rawSubs = <<>>
    /\ subtitles = <<>>
    /\ currentTime = DInt(0)
    /\ activeSub = <<>>
    /\ frameSub = <<>>
    /\ srtMode = "bilingual"
    /\ srtOut = <<>>
    /\ ParseIdle
    /\ AppIdle

Next ==
    \/ HandleFileUpload(TalkFile)
    \/ StartAnalysis(1)
    \/ \E r \in 1..MaxRuns : LoadedMetadata(r)
    \/ \E r \in 1..MaxRuns : UpdateProgress(r, 30, FALSE)
    \/ \E r \in 1..MaxRuns : ExtractResolve(r)
    \/ \E r \in 1..MaxRuns : ExtractReject(r, <<"Extraction timed out.">>)
    \/ \E r \in 1..MaxRuns, raw \in AppResponses : AIResolve(r, raw)
    \/ \E r \in 1..MaxRuns : AIReject(r, <<"E", "M", "P", "T", "Y", "_", "R", "E", "S", "P", "O", "N", "S", "E">>)
    \/ DownloadSRT("en")
    \/ \E t \in AppTimes : VideoPlays(t)
    \/ HandleTimeUpdate
    \/ \E time \in AppTimes : HandleSeek(time)
    \/ \E hasCtx \in BOOLEAN : SynthesizeVideo(hasCtx)
    \/ PlayRejects
    \/ \E ended \in BOOLEAN : RenderFrameStep(ended)
    \/ RecorderStopped
    \/ CancelSynthesis

Spec == InitApp /\ [][Next]_vars

(***************************************************************************)
(* C15: the two representations of a held entry.                           *)
(***************************************************************************)
\* C15: in every state of the App, every entry of the held list has for
\* startSeconds and endSeconds what the ingestion parser returns for its
\* startTime and endTime, whatever seconds fields the upstream record
\* carried and whatever handler ran since (upload, analysis, playback, seek,
\* export, burn-in).
C15_SecondsAgreeWithStrings ==
    pc = "app" =>
        \A k \in 1..Len(subtitles) :
            /\ subtitles[k].startSeconds = ParseSRTTime(subtitles[k].startTime)
            /\ subtitles[k].endSeconds = ParseSRTTime(subtitles[k].endTime)

\* The list ingested from a record with seconds fields of its own is held,
\* after a seek to 2.0 and an export
C15_Witness ==
    /\ pc = "app"
    /\ Len(subtitles) = 1
    /\ subtitles[1].index = SegCarrying.index
    /\ currentTime = Sec(2000)
    /\ activeSub = <<subtitles[1]>>
    /\ fileName # <<>>

(***************************************************************************)
(* C16: formatTime of the App (src/unnamed/part_001) and the parsers.      *)
(***************************************************************************)
\* v.toString().padStart(2, '0') for v = Math.floor(x)
FloorText(x) ==
    IF x.nan THEN <<"N", "a", "N">>
    ELSE IF x.i < 10 THEN <<"0">> \o NumberToString(x.i)
    ELSE NumberToString(x.i)

\* seconds % k for a non-negative double: exact
DModK(x, k) == IF x.nan THEN NaN ELSE [nan |-> FALSE, i |-> x.i % k, f |-> x.f]

\* formatTime(seconds): [h, m, s] padded and joined with ':'
FormatTime(seconds) ==
    LET h == DDivK(seconds, 3600)
        m == DDivK(DModK(seconds, 3600), 60)
        s == DModK(seconds, 60)
    IN  FloorText(h) \o <<":">> \o FloorText(m) \o <<":">> \o FloorText(s)

\* The seconds values formatted: whole and fractional, up to 359999.999
RoundTripTimes ==
    {Sec(((h * 60 + m) * 60 + s) * 1000 + ms) :
        h \in Hours, m \in Minutes, s \in Secs, ms \in Millis}

InitRoundTrip ==
    /\ pc = "format"
    /\ currentTime \in RoundTripTimes
    /\ rawSubs = <<>>
    /\ subtitles = <<>>
    /\ activeSub = <<>>
    /\ frameSub = <<>>
    /\ srtMode = "bilingual"
    /\ srtOut = <<>>
    /\ ParseIdle
    /\ AppIdle

\* The time is formatted and the text is handed to both parsers
FormatAndParse ==
    /\ pc = "format"
    /\ pc' = "parsed"
    /\ timeStr' = FormatTime(currentTime)
    /\ utilSeconds' = <<ParseTimeToSeconds(timeStr')>>
    /\ aiSeconds' = <<ParseSRTTime(timeStr')>>
    /\ UNCHANGED <<rawSubs, subtitles, currentTime, activeSub, frameSub, srtMode, srtOut,
                   appVars>>

NextRoundTrip == FormatAndParse

SpecRoundTrip == InitRoundTrip /\ [][NextRoundTrip]_vars

\* y is a number within 0.001 of x
WithinMillisecond(y, x) ==
    /\ DLe(y, DAdd(x, Sec(1)))
    /\ DLe(x, DAdd(y, Sec(1)))

\* C16: for every seconds value x in [0, 359999.999], the text that
\* formatting x gives parses back to a value within 0.001 of x.
C16_RoundTripWithinMillisecond ==
    pc = "parsed" => WithinMillisecond(utilSeconds[1], currentTime)

(***************************************************************************)
(* C17 and C18: what the overlay and the frame painter draw.  Both are     *)
(* taken past the lookup: the <p> elements SubtitleOverlay returns, top to *)
(* bottom (flex-col), and the fillText calls of renderFrame once its guard *)
(* has let the frame through.  Lengths are in thousandths of a pixel, so   *)
(* the products by 0.04, 0.035, 0.08 and 0.8 are whole numbers.            *)
(***************************************************************************)
\* canvas.height = videoEl.videoHeight
VideoHeight == 720

OverlayLinesOriginalOnly(active) ==
    IF active = <<>> THEN <<>> ELSE <<active[1].originalText>>

\* SubtitleOverlay: null, or the two <p> elements in document order
OverlayLines(active) ==
    IF active = <<>> THEN <<>>
    ELSE <<active[1].originalText, active[1].translatedText>>

FillTextCallsSameBaseline(sub, height) ==
    IF sub = <<>> THEN <<>>
    ELSE <<[text |-> sub[1].originalText, y |-> height * 1000],
           [text |-> sub[1].translatedText, y |-> height * 1000]>>

\* renderFrame: `if (sub) { ... }`, the fillText calls with their baselines
FillTextCalls(sub, height) ==
    IF sub = <<>> THEN <<>>
    ELSE LET padding == 20 * 1000
             fontSizeEn == height * 40
             fontSizeZh == height * 35
             bottomOffset == height * 80
             boxHeight == fontSizeEn + fontSizeZh + padding * 2
             boxY == height * 1000 - boxHeight - bottomOffset
         IN  <<[text |-> sub[1].originalText, y |-> boxY + padding + height * 32],
               [text |-> sub[1].translatedText,
                y |-> boxY + padding + fontSizeEn + fontSizeZh]>>

\* The texts on the frame from the top down, one line per baseline
PaintedLines(calls) ==
    LET ys == {calls[k].y : k \in 1..Len(calls)}
        TextAt(y) == CHOOSE k \in 1..Len(calls) :
                        calls[k].y = y /\ \A j \in 1..Len(calls) : calls[j].y = y => j <= k
        RECURSIVE Down(_)
        Down(rest) ==
            IF rest = {} THEN <<>>
            ELSE LET top == CHOOSE y \in rest : \A z \in rest : y <= z
                 IN  <<calls[TextAt(top)].text>> \o Down(rest \ {top})
    IN  Down(ys)

\* What the rendering that ran put on the screen or on the frame
Drawn ==
    IF pc = "overlay" THEN OverlayLines(activeSub)
    ELSE PaintedLines(FillTextCalls(frameSub, VideoHeight))

\* The first entry of the held list that contains the playback time
FirstContaining == CHOOSE k \in 1..Len(subtitles) :
                        Contains(k) /\ \A j \in 1..(k - 1) : ~Contains(j)

\* C17: the overlay and the frame painter draw nothing when no subtitle is
\* active at the current time, and otherwise draw exactly the active
\* subtitle's originalText and translatedText, one above the other.
C17_DrawsActiveTexts ==
    Looked =>
        IF \E k \in 1..Len(subtitles) : Contains(k)
        THEN Drawn = <<subtitles[FirstContaining].originalText,
                       subtitles[FirstContaining].translatedText>>
        ELSE Drawn = <<>>

\* A frame was painted at 2.0 s with an entry active and shows its two texts
C17_Witness ==
    /\ pc = "frame"
    /\ currentTime = Sec(2000)
    /\ frameSub # <<>>
    /\ Drawn = <<frameSub[1].originalText, frameSub[1].translatedText>>
    /\ frameSub[1].originalText # frameSub[1].translatedText

ExtractErrors ==
    {<<"Video playback error during extraction.">>, <<"Extraction timed out.">>, <<>>}

\* The messages of the errors caught in processVideoWithAI: a failed fetch,
\* a 429, a safety block, the empty response, a JSON.parse error, an error
\* without a message, and messages that hold two of the marks
AIErrors ==
    {<<"4", "2", "9", "f", "e", "t", "c", "h">>,
     <<"S", "A", "F", "E", "T", "Y", "4", "2", "9">>,
     <<"f", "e", "t", "c", "h">>,
     <<"4", "2", "9">>,
     <<"S", "A", "F", "E", "T", "Y">>,
     <<"E", "M", "P", "T", "Y", "_", "R", "E", "S", "P", "O", "N", "S", "E">>,
     <<"J", "S", "O", "N">>,
     <<>>}

\* The values of prog at a frame of updateProgress
Progs == {0, 30}

NextAnalysis ==
    \/ HandleFileUpload(TalkFile)
    \/ StartAnalysis(MaxRuns)
    \/ \E r \in 1..MaxRuns : LoadedMetadata(r)
    \/ \E r \in 1..MaxRuns, prog \in Progs, more \in BOOLEAN : UpdateProgress(r, prog, more)
    \/ \E r \in 1..MaxRuns : ExtractResolve(r)
    \/ \E r \in 1..MaxRuns, msg \in ExtractErrors : ExtractReject(r, msg)
    \/ \E r \in 1..MaxRuns, raw \in AppResponses : AIResolve(r, raw)
    \/ \E r \in 1..MaxRuns, u \in AIErrors : AIReject(r, u)

SpecAnalysis == InitApp /\ [][NextAnalysis]_vars

\* The step in which call r ends in the catch of startAnalysis
RunRejects(r) ==
    /\ r \in 1..Len(runs)
    /\ InFlight(runs[r])
    /\ runs' = [runs EXCEPT ![r].phase = "error"]

\* A message that shows some text
NonEmptyMessage(message) ==
    /\ message # <<>>
    /\ \A k \in 1..Len(message) : message[k] # ""

\* C19: when the extraction or the AI call of a startAnalysis rejects, the
\* call ends with status 'error' and a non-empty message, it does not end in
\* 'completed' and sets no subtitles, and the status is 'extracting' or
\* 'analyzing' only while a call is still under way.
C19_RejectionEndsInError ==
    /\ [][\A r \in 1..(MaxRuns + 1) :
            RunRejects(r) =>
                /\ processing'.status = "error"
                /\ NonEmptyMessage(processing'.message)
                /\ subtitles' = subtitles]_vars
    /\ [](processing.status \in {"extracting", "analyzing"} =>
            \E r \in 1..Len(runs) : InFlight(runs[r]))

\* A call has ended on an error without a message and the default is shown
C19_Witness ==
    /\ \E r \in 1..Len(runs) : runs[r].phase = "error"
    /\ processing.status = "error"
    /\ processing.message = <<"Processing failed.">>

(***************************************************************************)
(* C20: the name of the exported SRT file.                                 *)
(***************************************************************************)
\* Names of uploaded files: two dots, one dot, none
FileNames ==
    {TalkFile, <<"a", ".", "m", "p", "4">>, <<"c">>}

NextExport ==
    \/ \E name \in FileNames : HandleFileUpload(name)
    \/ StartAnalysis(1)
    \/ \E r \in 1..MaxRuns : LoadedMetadata(r)
    \/ \E r \in 1..MaxRuns : ExtractResolve(r)
    \/ \E r \in 1..MaxRuns : AIResolve(r, <<SegCarrying>>)
    \/ \E lang \in Modes : DownloadSRT(lang)

SpecExport == InitApp /\ [][NextExport]_vars

\* The file name without its extension: what stands before its last '.'
Basename(name) ==
    LET dots == {k \in 1..Len(name) : name[k] = "."}
    IN  IF dots = {} THEN name
        ELSE SubSeq(name, 1, (CHOOSE k \in dots : \A j \in dots : j <= k) - 1)

\* C20: an SRT export is offered under '<basename>_<mode>.srt', the
\* basename being the uploaded file's name without its extension, for
\* every file name, those with more than one '.' included.
C20_SrtFileName ==
    [][fileName' # fileName =>
          fileName' = <<Basename(video[1]) \o <<"_", srtMode', ".srt">>>>]_vars

(***************************************************************************)
(* C21: how the held list changes.                                         *)
(***************************************************************************)
\* The step is an upload: the video, the status and the clock are reset
UploadStep ==
    /\ video' # <<>>
    /\ processing' = [status |-> "idle", progress |-> 0, message |-> <<>>]
    /\ currentTime' = DInt(0)

\* The step is the completion of a call of startAnalysis
CompletionStep ==
    /\ \E r \in 1..Len(runs) :
          /\ runs[r].phase = "analyzing"
          /\ runs' = [runs EXCEPT ![r].phase = "completed"]
    /\ processing'.status = "completed"

\* C21: every change of the held list is the reset to the empty list of an
\* upload or the assignment of a complete result of processVideoWithAI;
\* no handler (playback tick, seek, export, burn-in) adds, removes,
\* reorders or edits entries of the list held.
C21_WholesaleReplacement ==
    [][subtitles' # subtitles =>
          \/ UploadStep /\ subtitles' = <<>>
          \/ CompletionStep /\ \E raw \in AppResponses : subtitles' \in ProcessVideoWithAI(raw)]_vars

\* A list is held that replaced another one, after an export and with a
\* burn-in pass holding the list it was started with
C21_Witness ==
    /\ Len(subtitles) = 1
    /\ RawOf(subtitles[1]) = RawOf(SegBad)
    /\ burn.stage = "stopping"
    /\ Len(burn.subtitles) = 1
    /\ burn.subtitles[1].index = SegCarrying.index
    /\ srtOut # <<>>

(***************************************************************************)
(* C22: the frame loop of a burn-in pass.                                  *)
(***************************************************************************)
\* C22: the recorder of a burn-in pass is stopped by a frame only when the
\* video has ended or the user has cancelled (the flag isSynthesizing, set
\* at the start of the pass, has been cleared); until then every frame
\* looks the subtitle up, paints and requests the next frame.
C22_LoopRunsUntilEndOrCancel ==
    [][(burn.stage \in {"starting", "frames"} /\ burn'.stage = "stopping") =>
          (burn'.ended \/ ~isSynthesizing)]_vars

(***************************************************************************)
(* C23: the list a lookup runs on.                                         *)
(***************************************************************************)
\* Entry s contains the time t, both ends included
In(s, t) == DGe(t, s.startSeconds) /\ DLe(t, s.endSeconds)

\* found is what a lookup at time t in the one list gives: its first entry
\* that contains t, or nothing when none does
LookupOn(list, t, found) ==
    IF \E k \in 1..Len(list) : In(list[k], t)
    THEN \E k \in 1..Len(list) :
            /\ In(list[k], t)
            /\ \A j \in 1..(k - 1) : ~In(list[j], t)
            /\ found = <<list[k]>>
    ELSE found = <<>>

\* The lists the App can hold: empty, or a complete result of ingestion
CompleteLists == {<<>>} \cup UNION {ProcessVideoWithAI(raw) : raw \in AppResponses}

\* C23: under every interleaving of playback ticks, seeks, burn-in frames,
\* uploads and completions, the overlay shows the lookup in the list held
\* now, and a burn-in frame carries the lookup in one complete list (the
\* one held when its pass began); no lookup mixes entries of two lists.
C23_LookupOnOneList ==
    /\ [](pc = "app" =>
            LookupOn(IF video = <<>> THEN <<>> ELSE subtitles, currentTime, activeSub))
    /\ [][frameSub' # frameSub =>
            /\ burn.subtitles \in CompleteLists
            /\ LookupOn(burn.subtitles, videoTime, frameSub')]_vars

\* A burn-in frame found a subtitle in the list its pass began with, the
\* App holding another list by then
C23_Witness ==
    /\ burn.stage = "frames"
    /\ frameSub # <<>>
    /\ frameSub[1] \in {burn.subtitles[k] : k \in 1..Len(burn.subtitles)}
    /\ subtitles # <<>>
    /\ subtitles # burn.subtitles

(***************************************************************************)
(* C24, C25: uploads while a call of startAnalysis is under way.  Each     *)
(* video has its own speech, so the service answers the audio of a video   *)
(* with that video's segments.                                             *)
(***************************************************************************)
\* A second file, "c"
OtherFile == <<"c">>

\* The segments the service returns for the audio of the video named name
ResponseFor(name) == IF name = TalkFile THEN <<SegCarrying>> ELSE <<SegHi>>

NextUploads ==
    \/ \E name \in {TalkFile, OtherFile} : HandleFileUpload(name)
    \/ StartAnalysis(MaxRuns)
    \/ \E r \in 1..MaxRuns : LoadedMetadata(r)
    \/ \E r \in 1..MaxRuns : ExtractResolve(r)
    \/ \E r \in 1..MaxRuns : ExtractReject(r, <<"Extraction timed out.">>)
    \/ \E r \in 1..MaxRuns : AIResolve(r, ResponseFor(runs[r].video))
    \/ \E r \in 1..MaxRuns : AIReject(r, <<"4", "2", "9">>)
    \/ DownloadSRT("en")

SpecUploads == InitApp /\ [][NextUploads]_vars

\* C24: in every state a non-empty held list is the ingestion result of
\* the video that is loaded now, also when a second video was uploaded
\* while the analysis of the first was under way.
C24_ListOfLoadedVideo ==
    (pc = "app" /\ subtitles # <<>>) =>
        /\ video # <<>>
        /\ subtitles \in ProcessVideoWithAI(ResponseFor(video[1]))

\* C25: at most one call of startAnalysis is under way at any time, after
\* any sequence of user actions, uploads during a run included.
C25_OneRunInFlight ==
    pc = "app" => Cardinality({r \in 1..Len(runs) : InFlight(runs[r])}) <= 1

(***************************************************************************)
(* C26: termination of a call of startAnalysis.  The browser delivers the  *)
(* event a call waits for: loadedmetadata or error while the hidden video  *)
(* loads; ended, error or the 10 minute timer while it is recorded (the    *)
(* timer rejects only then); the answer or the failure of the service      *)
(* after that.                                                             *)
(***************************************************************************)
\* Call r moves on: one of the events it waits for is delivered
RunSettles(r) ==
    \/ LoadedMetadata(r)
    \/ ExtractResolve(r)
    \/ ExtractReject(r, <<"Extraction timed out.">>)
    \/ AIReject(r, <<"4", "2", "9">>)
    \/ AIResolve(r, ResponseFor(runs[r].video))

FairSpecUploads == SpecUploads /\ \A r \in 1..MaxRuns : WF_vars(RunSettles(r))

NextBurn ==
    \/ HandleFileUpload(TalkFile)
    \/ StartAnalysis(1)
    \/ \E r \in 1..MaxRuns : LoadedMetadata(r)
    \/ \E r \in 1..MaxRuns : ExtractResolve(r)
    \/ \E r \in 1..MaxRuns : AIResolve(r, <<SegCarrying>>)
    \/ \E t \in AppTimes : VideoPlays(t)
    \/ \E hasCtx \in BOOLEAN : SynthesizeVideo(hasCtx)
    \/ PlayRejects
    \/ \E ended \in BOOLEAN : RenderFrameStep(ended)
    \/ RecorderStopped
    \/ CancelSynthesis

FairSpecBurn ==
    /\ InitApp
    /\ [][NextBurn]_vars
    /\ WF_vars(RenderFrameStep(TRUE))
    /\ WF_vars(\E ended \in BOOLEAN : RenderFrameStep(ended))
    /\ WF_vars(RecorderStopped)

\* C28: whenever isSynthesizing is true it becomes false again, on every
\* path of synthesizeVideo: end of the video, cancel, no 2D context,
\* playback that fails to start.
C28_FlagCleared == isSynthesizing ~> ~isSynthesizing

(***************************************************************************)
(* C29: ingestion keeps the segments.                                      *)
(***************************************************************************)
\* The fields of an ingested entry
IngestedFields ==
    {"index", "startTime", "endTime", "originalText", "translatedText",
     "startSeconds", "endSeconds"}

\* C29: the list processVideoWithAI returns is a permutation of the raw
\* segments of the response: as many entries, each raw segment once, with
\* index, startTime, endTime, originalText and translatedText unchanged and
\* only startSeconds and endSeconds added.
C29_IngestionPermutes ==
    pc # "start" =>
        /\ Len(subtitles) = Len(rawSubs)
        /\ \A k \in 1..Len(subtitles) : DOMAIN subtitles[k] = IngestedFields
        /\ \E p \in [1..Len(rawSubs) -> 1..Len(rawSubs)] :
              /\ \A j, k \in 1..Len(rawSubs) : p[j] = p[k] => j = k
              /\ \A k \in 1..Len(rawSubs) : RawOf(subtitles[k]) = rawSubs[p[k]]

\* Three segments were ingested, one without a number for its start, and
\* the first one held is not the first one delivered
C29_Witness ==
    /\ pc = "ingested"
    /\ Len(subtitles) = 3
    /\ RawOf(subtitles[1]) # rawSubs[1]
    /\ \E k \in 1..3 : subtitles[k].startSeconds.nan

(***************************************************************************)
(* C30: the outcomes of processVideoWithAI.                                *)
(***************************************************************************)
Has(u, mark) == Includes(u, mark)

MarkFetch == <<"f", "e", "t", "c", "h">>

Mark429 == <<"4", "2", "9">>

MarkSafety == <<"S", "A", "F", "E", "T", "Y">>

MarkEmpty == <<"E", "M", "P", "T", "Y", "_", "R", "E", "S", "P", "O", "N", "S", "E">>

\* The message the priority of the claim gives the underlying message u
PriorityMessage(u) ==
    CASE Has(u, MarkFetch) ->
            <<"Network error: Please check your internet connection.">>
      [] ~Has(u, MarkFetch) /\ Has(u, Mark429) ->
            <<"Rate limit exceeded: Please wait a moment before trying again.">>
      [] ~Has(u, MarkFetch) /\ ~Has(u, Mark429) /\ Has(u, MarkSafety) ->
            <<"Content filtered: The AI cannot process this audio due to safety guidelines.">>
      [] ~Has(u, MarkFetch) /\ ~Has(u, Mark429) /\ ~Has(u, MarkSafety) /\ u = MarkEmpty ->
            <<"Processing failed: No speech was detected or identified in the audio.">>
      [] OTHER ->
            IF u = <<>>
            THEN <<"AI Analysis Error: ", "An unexpected error occurred during processing.">>
            ELSE <<"AI Analysis Error: ">> \o u

=============================================================================
